---------------------------- MODULE Spec2Model ----------------------------
(***************************************************************************)
(* WeatherWidget (SystemGlass): a floating overlay showing the weather of  *)
(* a configured city and system metrics.  The model covers                 *)
(*   - geocode.py: translate_ru_to_en, geocode_city, detect_city_by_ip     *)
(*   - metrics.py: init_counters, update_metrics                           *)
(*   - config.py:  load_config, save_config, WEATHER_ICONS                 *)
(*   - tray.py:    the tray menu callbacks                                 *)
(*   - widget_ui.py / app.py: the WeatherWidget class (two variants of the *)
(*     same program; app.py is the single-file build).                     *)
(*                                                                         *)
(* Conventions.  A Python str is a sequence of Unicode code points.  An    *)
(* optional value (None or x) is a sequence of length 0 or 1.  Times are   *)
(* integers in microseconds, opacities in hundredths, byte counters in     *)
(* bytes.  A rate in KB/s is an exact fraction in lowest terms.            *)
(***************************************************************************)
EXTENDS Integers, Sequences, FiniteSets, TLC

VARIABLES
    variant,        \* which build runs: "widget_ui" or "app"
    phase,          \* "start", "running", "crashed", "exited"
    cfg,            \* self.cfg: [city, lat, lon, alpha]; <<>> before load_config
    disk,           \* CONFIG_FILE: <<>> when absent, else <<cfg record>>
    alpha,          \* self.alpha
    win_alpha,      \* the window attribute "-alpha"
    weather_label,  \* text of self.weather_label
    net_label,      \* rates shown by self.net_label: <<>> or <<sent, recv>>
    last_net,       \* self.last_network_io / self.last_net
    last_time,      \* self.last_time
    scheduled,      \* Tk after-queue: callback name -> number of pending entries
    dialogs,        \* number of open settings dialogs
    lastOp,         \* record of the handler that ran last (thread, escape, inputs)
    resolved,       \* location written by the last resolution that succeeded
    geo             \* record of the last direct geocode_city evaluation

vars == <<variant, phase, cfg, disk, alpha, win_alpha, weather_label, net_label,
          last_net, last_time, scheduled, dialogs, lastOp, resolved, geo>>

----------------------------------------------------------------------------
(* Bounds of the model *)

MaxResults == 3     \* longest candidate list the geocoding service returns here
MaxPending == 1     \* tray callbacks queued and dialogs open at one time

----------------------------------------------------------------------------
(* Optional values *)

None == <<>>
Some(x) == <<x>>

(* Python str: sequences of code points *)

\* the characters the inputs are written with: space, a, b, B, and the
\* Cyrillic letters U+043C and U+041C
Ch == [sp |-> 32, a |-> 97, b |-> 98, B |-> 66, cyrm |-> 1084, cyrM |-> 1052]

\* the range of the pattern in geocode_city
CyrFirst == 1024    \* U+0400
CyrLast == 1279     \* U+04FF

\* str.strip() removes these (the ASCII and Latin-1 whitespace of str.isspace)
Whitespace == {9, 10, 11, 12, 13, 28, 29, 30, 31, 32, 133, 160}

\* str.lower() on the Latin and Cyrillic letters used here
LowerChar(c) ==
    IF c \in 65..90 THEN c + 32
    ELSE IF c \in 1040..1071 THEN c + 32
    ELSE IF c \in 1024..1039 THEN c + 80
    ELSE c

Lower(s) == [i \in 1..Len(s) |-> LowerChar(s[i])]

RECURSIVE LStrip(_)
LStrip(s) == IF s # <<>> /\ Head(s) \in Whitespace THEN LStrip(Tail(s)) ELSE s

RECURSIVE RStrip(_)
RStrip(s) ==
    IF s # <<>> /\ s[Len(s)] \in Whitespace
    THEN RStrip(SubSeq(s, 1, Len(s) - 1)) ELSE s

Strip(s) == RStrip(LStrip(s))

StartsWith(s, p) == Len(p) <= Len(s) /\ SubSeq(s, 1, Len(p)) = p

RECURSIVE Join(_)
Join(chunks) == IF chunks = <<>> THEN <<>> ELSE Head(chunks) \o Join(Tail(chunks))

\* re.search('[\u0400-\u04FF]', city)
HasCyrillic(s) == \E i \in 1..Len(s) : s[i] \in CyrFirst..CyrLast

----------------------------------------------------------------------------
(* geocode.py *)

\* Exceptions of the HTTP layer that are requests.RequestException but not
\* ValueError
ServiceFailures == {"ConnectionError", "Timeout", "HTTPError"}

\* translate_ru_to_en(text): tr is what the translation service did;
\* every exception is caught and the original text returned
TranslateShortCircuit(text, tr) ==
    IF tr.kind = "ok" THEN Join(tr.chunks) ELSE <<>>
translate_ru_to_en(text, tr) ==
    IF tr.kind = "ok" THEN Join(tr.chunks) ELSE text

\* location.get("name", "")
NameOf(location) == IF location.hasName THEN location.name ELSE <<>>

NormName(location) == Lower(Strip(NameOf(location)))

\* The three loops of geocode_city over a non-empty list: the index chosen
PrefixFirstIndex(results, city_lower) ==
    LET prefix == {i \in 1..Len(results) : StartsWith(NormName(results[i]), city_lower)}
    IN  IF prefix # {} THEN CHOOSE i \in prefix : \A j \in prefix : i <= j
        ELSE 1
SelectIndex(results, city_lower) ==
    LET exact == {i \in 1..Len(results) : NormName(results[i]) = city_lower}
        prefix == {i \in 1..Len(results) : StartsWith(NormName(results[i]), city_lower)}
    IN  IF exact # {} THEN CHOOSE i \in exact : \A j \in exact : i <= j
        ELSE IF prefix # {} THEN CHOOSE i \in prefix : \A j \in prefix : i <= j
        ELSE 1

\* response.json().get("results", []) / .get("results") or []: the list, or
\* an empty list when the key is missing or null (both are falsy)
ResultsOf(resp) == IF resp.results = None THEN <<>> ELSE resp.results[1]

\* geocode_city(city): city is an optional str, tr the translation service's
\* behaviour, resp the geocoding service's.  raised = "none" on return.
geocode_city(city, tr, resp) ==
    IF city = None
    THEN [raised |-> "TypeError", calls |-> <<>>, lat |-> 0, lon |-> 0]
    ELSE
    LET text == city[1]
        cyr == HasCyrillic(text)
        q == IF cyr THEN translate_ru_to_en(text, tr) ELSE text
        calls == (IF cyr THEN << [svc |-> "translate", q |-> text] >> ELSE <<>>)
                 \o << [svc |-> "geocode", q |-> q] >>
        results == ResultsOf(resp)
    IN  IF resp.kind # "ok"
        THEN [raised |-> resp.kind, calls |-> calls, lat |-> 0, lon |-> 0]
        ELSE IF results = <<>>
        THEN [raised |-> "ValueError", calls |-> calls, lat |-> 0, lon |-> 0]
        ELSE LET loc == results[SelectIndex(results, Lower(Strip(q)))]
             IN  [raised |-> "none", calls |-> calls,
                  lat |-> loc.latitude, lon |-> loc.longitude]

----------------------------------------------------------------------------
(* Inputs of the geocoding evaluation *)

CandidateNames ==
    { <<Ch.b>>, <<Ch.B, Ch.sp>>, <<Ch.b, Ch.a>>, <<Ch.a>>, <<Ch.cyrM>> }

\* the candidate at position i of a response: coordinates identify the position
Candidate(i, n) ==
    [hasName |-> n # None, name |-> IF n = None THEN <<>> ELSE n[1],
     latitude |-> 50 + i, longitude |-> 10 + i]

NameLists(k) ==
    UNION { [1..n -> {Some(c) : c \in CandidateNames} \cup {None}] : n \in 1..k }

CandidateLists(k) ==
    { [i \in 1..Len(ns) |-> Candidate(i, ns[i])] : ns \in NameLists(k) }

GeoFailures == ServiceFailures \cup {"JSONDecodeError"}

GeoResponses(k) ==
    { [kind |-> f, results |-> None] : f \in GeoFailures }
    \cup { [kind |-> "ok", results |-> None],          \* key missing or null
           [kind |-> "ok", results |-> Some(<<>>)] }   \* empty list
    \cup { [kind |-> "ok", results |-> Some(l)] : l \in CandidateLists(k) }

Translations ==
    { [kind |-> f, chunks |-> <<>>] : f \in GeoFailures \cup {"TypeError"} }
    \cup { [kind |-> "ok", chunks |-> c] :
             c \in { << <<Ch.b>> >>, << <<Ch.b>>, <<Ch.a>> >>, << <<Ch.sp, Ch.B>> >> } }

NoTranslation == [kind |-> "ok", chunks |-> <<>>]

Queries ==
    { <<>>, <<Ch.b>>, <<Ch.sp, Ch.B>>, <<Ch.b, Ch.a>>,
      <<Ch.cyrm>>, <<Ch.b, CyrFirst>>, <<CyrLast>>, <<CyrFirst - 1>>, <<CyrLast + 1>> }

\* detect_city_by_ip(): ip is what the IP lookup did.  A body that is not
\* JSON raises JSONDecodeError, which is a RequestException only in newer
\* releases of requests (compat); a JSON body that is not an object has no
\* .get and raises AttributeError.
detect_city_by_ip(ip, compat) ==
    IF ip.kind = "ok" THEN [raised |-> "none", city |-> ip.city]
    ELSE IF ip.kind \in ServiceFailures THEN [raised |-> "none", city |-> None]
    ELSE IF ip.kind = "JSONDecodeError" /\ compat THEN [raised |-> "none", city |-> None]
    ELSE [raised |-> ip.kind, city |-> None]

----------------------------------------------------------------------------
(* config.py *)

ALPHA_DEFAULT == 90
CITY_DEFAULT == None

DefaultConfig ==
    [city |-> CITY_DEFAULT, lat |-> None, lon |-> None, alpha |-> ALPHA_DEFAULT]

\* load_config(): creates the file with the defaults when it is absent
load_config(file) ==
    IF file = None THEN [cfg |-> DefaultConfig, file |-> Some(DefaultConfig)]
    ELSE [cfg |-> file[1], file |-> file]

\* save_config(cfg): the new content of the file
save_config(c) == Some(c)

----------------------------------------------------------------------------
(* WeatherWidget._set_city *)

\* ValueError and its subclasses, which _set_city catches
ValueErrors == {"ValueError", "JSONDecodeError"}

LocationOf(c) == [city |-> c.city, lat |-> c.lat, lon |-> c.lon]

\* _set_city(city): the configuration afterwards, the exception that escapes
\* ("none" when the method returns, after save_config)
SetCityClearsOnNotFound(c, city, tr, resp) ==
    LET g == geocode_city(city, tr, resp)
    IN  [cfg |-> IF g.raised = "none"
                 THEN [c EXCEPT !.city = city, !.lat = Some(g.lat), !.lon = Some(g.lon)]
                 ELSE [c EXCEPT !.city = city, !.lat = None, !.lon = None],
         escaped |-> IF g.raised \in ValueErrors THEN "none" ELSE g.raised,
         geo |-> g]
SetCityWritesCityFirst(c, city, tr, resp) ==
    LET g == geocode_city(city, tr, resp)
    IN  [cfg |-> IF g.raised = "none"
                 THEN [c EXCEPT !.city = city, !.lat = Some(g.lat), !.lon = Some(g.lon)]
                 ELSE [c EXCEPT !.city = city],
         escaped |-> IF g.raised \in ValueErrors THEN "none" ELSE g.raised,
         geo |-> g]
set_city(c, city, tr, resp) ==
    LET g == geocode_city(city, tr, resp)
    IN  [cfg |-> IF g.raised = "none"
                 THEN [c EXCEPT !.city = city, !.lat = Some(g.lat), !.lon = Some(g.lon)]
                 ELSE c,
         escaped |-> IF g.raised \in ValueErrors THEN "none" ELSE g.raised,
         geo |-> g]

----------------------------------------------------------------------------
(* metrics.py *)

Abs(x) == IF x < 0 THEN -x ELSE x

RECURSIVE GCD(_, _)
GCD(a, b) == IF b = 0 THEN a ELSE GCD(b, a % b)

\* the exact value n / d as a fraction in lowest terms with a positive
\* denominator (den = 0 stands for the ZeroDivisionError of a zero divisor)
Fraction(n, d) ==
    LET g == GCD(Abs(n), Abs(d))
        sgn == IF d < 0 THEN -1 ELSE 1
    IN  IF d = 0 THEN [num |-> n, den |-> 0]
        ELSE [num |-> sgn * (n \div g), den |-> sgn * (d \div g)]

Max(a, b) == IF a >= b THEN a ELSE b

\* time_diff = max(current_time - last_time, 1e-6), in microseconds
TimeDiffUnclamped(current_time, prev_time) == current_time - prev_time
TimeDiff(current_time, prev_time) == Max(current_time - prev_time, 1)

\* bytes / time_diff / 1024 with time_diff in microseconds:
\* bytes * 10^6 / (time_diff * 1024) = bytes * 15625 / (time_diff * 16)
Speed(bytes, time_diff) == Fraction(bytes * 15625, time_diff * 16)

\* update_metrics(last_net, last_time) with the counters and the clock it reads
update_metrics(prev_net, prev_time, current_net, current_time) ==
    LET time_diff == TimeDiff(current_time, prev_time)
    IN  [time_diff |-> time_diff,
         sent_speed |-> Speed(current_net.bytes_sent - prev_net.bytes_sent, time_diff),
         recv_speed |-> Speed(current_net.bytes_recv - prev_net.bytes_recv, time_diff),
         current_time |-> current_time]

\* f"{x:.1f}": x rounded to tenths, ties to even
Tenths(x) ==
    IF x.den = 0 THEN 0
    ELSE LET n == 10 * x.num
             q == n \div x.den
             r == n - q * x.den
         IN  IF 2 * r > x.den THEN q + 1
             ELSE IF 2 * r < x.den THEN q
             ELSE IF q % 2 = 0 THEN q ELSE q + 1

----------------------------------------------------------------------------
(* The weather request of _update_weather *)

WEATHER_ICONS ==
    [c \in {0, 1, 2, 3, 45, 48, 51, 52, 53, 54, 55, 56, 57, 61, 62, 63, 66, 67,
            71, 72, 73, 77, 80, 81, 82, 85, 86, 95, 96, 99} |->
        CASE c = 0 -> "sun"
          [] c = 1 -> "sun_small_cloud"
          [] c = 2 -> "sun_behind_cloud"
          [] c = 3 -> "cloud"
          [] c \in {45, 48} -> "fog"
          [] c = 51 -> "sun_rain_cloud"
          [] c \in {52, 53, 54, 55, 61, 62, 63, 80, 81, 82} -> "rain_cloud"
          [] c \in {56, 57, 66, 67, 77} -> "snow_cloud"
          [] c \in {71, 72, 73, 85, 86} -> "snowflake"
          [] c \in {95, 96, 99} -> "thunder_cloud"]

\* WEATHER_ICONS.get(data.get("weathercode", 0), globe)
WeatherIconClearSkyFallback(data) ==
    LET code == IF data.weathercode = None THEN 0 ELSE data.weathercode[1]
    IN  IF code \in DOMAIN WEATHER_ICONS THEN WEATHER_ICONS[code] ELSE WEATHER_ICONS[0]
WeatherIcon(data) ==
    LET code == IF data.weathercode = None THEN 0 ELSE data.weathercode[1]
    IN  IF code \in DOMAIN WEATHER_ICONS THEN WEATHER_ICONS[code] ELSE "globe"

\* data.get(key, "?") inside the f-string
Field(v) == IF v = None THEN "?" ELSE ToString(v[1])

\* the text f"{icon} {temp}°C  {wind} m/s" as its three parts
WeatherText(data) == <<WeatherIcon(data), Field(data.temperature), Field(data.windspeed)>>

NoData == [weathercode |-> None, temperature |-> None, windspeed |-> None]

\* What the request and response.json().get("current_weather", {}) do for
\* an outcome w of the weather service: the exception raised, or the data.
\* The status of the response is not looked at.
WeatherData(w, compat) ==
    IF w.kind # "response" THEN [raised |-> w.kind, data |-> NoData]
    ELSE IF w.shape = "malformed"
         THEN [raised |-> IF compat THEN "RequestsJSONDecodeError" ELSE "JSONDecodeError",
               data |-> NoData]
    ELSE IF w.shape \in {"array", "null_current_weather"}
         THEN [raised |-> "AttributeError", data |-> NoData]
    ELSE [raised |-> "none", data |-> w.data]

\* the exceptions that "except requests.RequestException" catches
RequestExceptions == ServiceFailures \cup {"RequestsJSONDecodeError"}

----------------------------------------------------------------------------
(* Inputs of the application *)

AlphaChoices == {55}

AppCities == { <<>>, <<Ch.b, Ch.sp>>, <<Ch.cyrm>> }

AppResponses ==
    { [kind |-> f, results |-> None] : f \in GeoFailures }
    \cup { [kind |-> "ok", results |-> None],
           [kind |-> "ok", results |-> Some(<<>>)],
           [kind |-> "ok", results |-> Some(<< Candidate(1, Some(<<Ch.b>>)) >>)],
           [kind |-> "ok", results |-> Some(<< Candidate(1, Some(<<Ch.a>>)),
                                               Candidate(2, Some(<<Ch.b>>)) >>)] }

AppTranslations ==
    { [kind |-> "ok", chunks |-> << <<Ch.b>> >>], [kind |-> "Timeout", chunks |-> <<>>] }

IpOutcomes ==
    { [kind |-> "ok", city |-> Some(<<Ch.b>>)], [kind |-> "ok", city |-> None] }
    \cup { [kind |-> f, city |-> None] :
             f \in ServiceFailures \cup {"JSONDecodeError", "AttributeError"} }

WeatherBodies ==
    { [shape |-> "malformed", data |-> NoData],
      [shape |-> "array", data |-> NoData],
      [shape |-> "null_current_weather", data |-> NoData],
      [shape |-> "object", data |-> NoData],
      [shape |-> "object", data |-> [weathercode |-> Some(95), temperature |-> Some(5),
                                     windspeed |-> Some(3)]],
      [shape |-> "object", data |-> [weathercode |-> Some(17), temperature |-> None,
                                     windspeed |-> Some(3)]] }

WeatherOutcomes ==
    { [kind |-> f, status |-> 0, shape |-> "none", data |-> NoData] :
        f \in {"ConnectionError", "Timeout"} }
    \cup { [kind |-> "response", status |-> st, shape |-> b.shape, data |-> b.data] :
             st \in {200, 400}, b \in WeatherBodies }

ByteReadings ==
    { [bytes_sent |-> x, bytes_recv |-> y] : x \in {0, 10240, 20480}, y \in {0, 2048} }

ClockReadings == {0, 1, 2, 500000, 500002}

AppReadings == { [bytes_sent |-> 10240, bytes_recv |-> 0] }

AppClockReadings == {500000}

\* whether JSONDecodeError is a RequestException depends on the release of
\* requests that is installed; it matters only when the body is not JSON
Compat(relevant) == IF relevant THEN BOOLEAN ELSE {TRUE}

Callbacks == {"_update_weather", "_update_metrics", "_open_settings", "_quit"}

NothingScheduled == [c \in Callbacks |-> 0]

NoOp == [name |-> "none", thread |-> "main", escaped |-> "none", detail |-> <<>>]

NoReading == [bytes_sent |-> 0, bytes_recv |-> 0]

----------------------------------------------------------------------------
(* The process before WeatherWidget() is constructed; no configuration file
   exists before the first launch *)

Init ==
    /\ variant \in {"widget_ui", "app"}
    /\ phase = "start"
    /\ cfg = DefaultConfig
    /\ disk = None
    /\ alpha = ALPHA_DEFAULT
    /\ win_alpha = 100
    /\ weather_label = <<>>
    /\ net_label = <<>>
    /\ last_net = NoReading
    /\ last_time = 0
    /\ scheduled = NothingScheduled
    /\ dialogs = 0
    /\ lastOp = NoOp
    /\ resolved = LocationOf(DefaultConfig)
    /\ geo = [called |-> FALSE]

\* a truthy city: neither None nor the empty string
Truthy(city) == city # None /\ city[1] # <<>>

\* WeatherWidget.__init__ with the counters read by init_counters
Startup ==
    /\ phase = "start"
    /\ \E ip \in IpOutcomes, tr \in AppTranslations, resp \in AppResponses :
       \E compat \in Compat(ip.kind = "JSONDecodeError") :
        LET ld == load_config(disk)
            configured == Truthy(ld.cfg.city)
            det == IF configured THEN [raised |-> "none", city |-> ld.cfg.city]
                   ELSE detect_city_by_ip(ip, compat)
            sc == set_city(ld.cfg, det.city, tr, resp)
            escaped == IF det.raised # "none" THEN det.raised ELSE sc.escaped
            detail == [ip |-> IF configured THEN "unused" ELSE ip.kind,
                       city |-> det.city,
                       geo |-> IF det.raised # "none" THEN "skipped" ELSE sc.geo.raised,
                       resp |-> IF det.raised # "none" \/ det.city = None
                                THEN None ELSE Some(resp)]
        IN  /\ lastOp' = [name |-> "__init__", thread |-> "main",
                          escaped |-> escaped, detail |-> detail]
            /\ IF escaped # "none"
               THEN /\ phase' = "crashed"
                    /\ disk' = ld.file
                    /\ resolved' = LocationOf(ld.cfg)
                    /\ UNCHANGED <<cfg, alpha, win_alpha, last_net, last_time, scheduled>>
               ELSE /\ phase' = "running"
                    /\ cfg' = sc.cfg
                    /\ disk' = save_config(sc.cfg)
                    /\ resolved' = IF sc.geo.raised = "none"
                                   THEN [city |-> det.city, lat |-> Some(sc.geo.lat),
                                         lon |-> Some(sc.geo.lon)]
                                   ELSE LocationOf(ld.cfg)
                    /\ alpha' = sc.cfg.alpha
                    /\ win_alpha' = sc.cfg.alpha
                    /\ last_net' \in AppReadings
                    /\ last_time' \in AppClockReadings
                    /\ scheduled' = [NothingScheduled EXCEPT
                                        !["_update_weather"] = 1,
                                        !["_update_metrics"] = 1]
    /\ UNCHANGED <<variant, weather_label, net_label, dialogs, geo>>

\* save_and_close of a settings dialog: the text of the entry and the value
\* of the scale are the user's
SaveAndClose ==
    /\ phase = "running"
    /\ dialogs > 0
    /\ \E entry \in AppCities, a \in AlphaChoices, tr \in AppTranslations,
          resp \in AppResponses :
        LET city == Some(Strip(entry))
            sc == set_city(cfg, city, tr, resp)
            after == [sc.cfg EXCEPT !.alpha = a]
        IN  /\ lastOp' = [name |-> "save_and_close", thread |-> "main",
                          escaped |-> sc.escaped,
                          detail |-> [city |-> city, geo |-> sc.geo.raised,
                                      resp |-> Some(resp), alpha |-> a]]
            /\ IF sc.escaped # "none"
               THEN UNCHANGED <<cfg, disk, alpha, win_alpha, dialogs, resolved>>
               ELSE /\ cfg' = after
                    /\ disk' = save_config(after)
                    /\ alpha' = a
                    /\ win_alpha' = a
                    /\ dialogs' = dialogs - 1
                    /\ resolved' = IF sc.geo.raised = "none"
                                   THEN [city |-> city, lat |-> Some(sc.geo.lat),
                                         lon |-> Some(sc.geo.lon)]
                                   ELSE resolved
    /\ UNCHANGED <<variant, phase, weather_label, net_label, last_net, last_time,
                   scheduled, geo>>

\* the user starts the program again after it ended; the file stays
Relaunch ==
    /\ phase \in {"crashed", "exited"}
    /\ phase' = "start"
    /\ cfg' = DefaultConfig
    /\ alpha' = ALPHA_DEFAULT
    /\ win_alpha' = 100
    /\ weather_label' = <<>>
    /\ net_label' = <<>>
    /\ last_net' = NoReading
    /\ last_time' = 0
    /\ scheduled' = NothingScheduled
    /\ dialogs' = 0
    /\ lastOp' = NoOp
    /\ resolved' = LocationOf(DefaultConfig)
    /\ UNCHANGED <<variant, disk, geo>>

----------------------------------------------------------------------------
(* The tray thread: the menu callbacks of create_tray_icon / _init_tray *)

\* "Settings" item: app.after(0, app._open_settings)
OpenSettingsDirect ==
    /\ phase = "running"
    /\ scheduled["_open_settings"] + dialogs < MaxPending
    /\ dialogs' = dialogs + 1
    /\ lastOp' = [name |-> "_open_settings", thread |-> "tray", escaped |-> "none",
                  detail |-> <<>>]
    /\ UNCHANGED <<variant, phase, cfg, disk, alpha, win_alpha, weather_label,
                   net_label, last_net, last_time, scheduled, resolved, geo>>
OpenSettingsSafe ==
    /\ phase = "running"
    /\ scheduled["_open_settings"] + dialogs < MaxPending
    /\ scheduled' = [scheduled EXCEPT !["_open_settings"] = @ + 1]
    /\ lastOp' = [name |-> "_open_settings_safe", thread |-> "tray", escaped |-> "none",
                  detail |-> <<>>]
    /\ UNCHANGED <<variant, phase, cfg, disk, alpha, win_alpha, weather_label,
                   net_label, last_net, last_time, dialogs, resolved, geo>>

\* "Exit" item: app.after(0, app._quit)
QuitAppSafe ==
    /\ phase = "running"
    /\ scheduled["_quit"] < MaxPending
    /\ scheduled' = [scheduled EXCEPT !["_quit"] = @ + 1]
    /\ lastOp' = [name |-> "_quit_app_safe", thread |-> "tray", escaped |-> "none",
                  detail |-> <<>>]
    /\ UNCHANGED <<variant, phase, cfg, disk, alpha, win_alpha, weather_label,
                   net_label, last_net, last_time, dialogs, resolved, geo>>

----------------------------------------------------------------------------
(* The main loop runs one entry of the after-queue *)

OpenSettings ==
    /\ phase = "running"
    /\ scheduled["_open_settings"] > 0
    /\ scheduled' = [scheduled EXCEPT !["_open_settings"] = @ - 1]
    /\ dialogs' = dialogs + 1
    /\ lastOp' = [name |-> "_open_settings", thread |-> "main", escaped |-> "none",
                  detail |-> <<>>]
    /\ UNCHANGED <<variant, phase, cfg, disk, alpha, win_alpha, weather_label,
                   net_label, last_net, last_time, resolved, geo>>

\* _quit: tray_icon.stop(), destroy(), sys.exit(0)
Quit ==
    /\ phase = "running"
    /\ scheduled["_quit"] > 0
    /\ phase' = "exited"
    /\ scheduled' = NothingScheduled
    /\ dialogs' = 0
    /\ lastOp' = [name |-> "_quit", thread |-> "main", escaped |-> "none",
                  detail |-> <<>>]
    /\ UNCHANGED <<variant, cfg, disk, alpha, win_alpha, weather_label, net_label,
                   last_net, last_time, resolved, geo>>

\* _update_weather: the request is made only with both coordinates; the
\* callback is scheduled again by the last statement, which an exception
\* that is not a RequestException skips
UpdateWeatherWith(outcomes) ==
    /\ phase = "running"
    /\ scheduled["_update_weather"] > 0
    /\ \E w \in outcomes :
       \E compat \in Compat(w.shape = "malformed") :
        LET requested == cfg.lat # None /\ cfg.lon # None
            r == IF requested THEN WeatherData(w, compat)
                 ELSE [raised |-> "none", data |-> NoData]
            escaped == IF r.raised \in RequestExceptions THEN "none" ELSE r.raised
        IN  /\ weather_label' = IF requested /\ r.raised = "none"
                                THEN WeatherText(r.data) ELSE weather_label
            /\ scheduled' = [scheduled EXCEPT !["_update_weather"] =
                                IF escaped = "none" THEN @ ELSE @ - 1]
            /\ lastOp' = [name |-> "_update_weather", thread |-> "main",
                          escaped |-> escaped,
                          detail |-> [requested |-> requested, lat |-> cfg.lat,
                                      lon |-> cfg.lon,
                                      kind |-> IF requested THEN w.kind ELSE "none",
                                      status |-> IF requested THEN w.status ELSE 0,
                                      raised |-> r.raised, data |-> r.data]]
    /\ UNCHANGED <<variant, phase, cfg, disk, alpha, win_alpha, net_label, last_net,
                   last_time, dialogs, resolved, geo>>

UpdateWeather == UpdateWeatherWith(WeatherOutcomes)

\* _update_metrics with the counters and the clock read from the sets given:
\* net and now are read for the rates; widget_ui.py reads the counters again
\* (net2) for the baseline, app.py keeps net
UpdateMetricsWith(readings, clocks) ==
    /\ phase = "running"
    /\ scheduled["_update_metrics"] > 0
    /\ \E net \in readings, now \in clocks, net2 \in readings :
        LET m == update_metrics(last_net, last_time, net, now)
        IN  /\ variant = "app" => net2 = net
            /\ last_net' = net2
            /\ last_time' = m.current_time
            /\ net_label' = <<Tenths(m.sent_speed), Tenths(m.recv_speed)>>
            /\ lastOp' = [name |-> "_update_metrics", thread |-> "main",
                          escaped |-> "none",
                          detail |-> [prev_net |-> last_net, prev_time |-> last_time,
                                      net |-> net, now |-> now,
                                      time_diff |-> m.time_diff,
                                      sent |-> m.sent_speed, recv |-> m.recv_speed]]
    /\ UNCHANGED <<variant, phase, cfg, disk, alpha, win_alpha, weather_label,
                   scheduled, dialogs, resolved, geo>>

UpdateMetrics == UpdateMetricsWith(AppReadings, AppClockReadings)

Next ==
    \/ Startup
    \/ SaveAndClose
    \/ Relaunch
    \/ OpenSettingsSafe
    \/ QuitAppSafe
    \/ OpenSettings
    \/ Quit
    \/ UpdateWeather
    \/ UpdateMetrics

Spec == Init /\ [][Next]_vars

----------------------------------------------------------------------------
(* The metrics sampler on its own: the widget is running after a first launch
   whose lookup found no city, and the counters and the clock take any of the
   readings *)

InitMetrics ==
    /\ variant \in {"widget_ui", "app"}
    /\ phase = "running"
    /\ cfg = DefaultConfig
    /\ disk = Some(DefaultConfig)
    /\ alpha = ALPHA_DEFAULT
    /\ win_alpha = ALPHA_DEFAULT
    /\ weather_label = <<>>
    /\ net_label = <<>>
    /\ last_net \in ByteReadings
    /\ last_time \in ClockReadings
    /\ scheduled = [NothingScheduled EXCEPT !["_update_weather"] = 1,
                                            !["_update_metrics"] = 1]
    /\ dialogs = 0
    /\ lastOp = [name |-> "__init__", thread |-> "main", escaped |-> "none",
                 detail |-> [ip |-> "ok", city |-> Some(<<Ch.b>>), geo |-> "ValueError",
                             resp |-> Some([kind |-> "ok", results |-> None])]]
    /\ resolved = LocationOf(DefaultConfig)
    /\ geo = [called |-> FALSE]

SampleMetrics == UpdateMetricsWith(ByteReadings, ClockReadings)

SpecMetrics == InitMetrics /\ [][SampleMetrics]_vars

----------------------------------------------------------------------------
(* The weather tick on its own: the widget is running after a first launch
   that resolved the city found by the IP lookup, and the weather service
   answers with any weather code from 0 to MaxCode, with or without the
   temperature and the wind *)

MaxCode == 100

CodeOutcomes ==
    { [kind |-> "response", status |-> 200, shape |-> "object",
       data |-> [weathercode |-> c, temperature |-> t, windspeed |-> v]] :
        c \in {Some(n) : n \in 0..MaxCode} \cup {None},
        t \in {None, Some(5)}, v \in {None, Some(3)} }

InitWeather ==
    LET found == [kind |-> "ok", results |-> Some(<< Candidate(1, Some(<<Ch.b>>)) >>)]
        c == [DefaultConfig EXCEPT !.city = Some(<<Ch.b>>), !.lat = Some(51),
                                   !.lon = Some(11)]
    IN  /\ variant \in {"widget_ui", "app"}
        /\ phase = "running"
        /\ cfg = c
        /\ disk = Some(c)
        /\ alpha = ALPHA_DEFAULT
        /\ win_alpha = ALPHA_DEFAULT
        /\ weather_label = <<>>
        /\ net_label = <<>>
        /\ last_net \in AppReadings
        /\ last_time \in AppClockReadings
        /\ scheduled = [NothingScheduled EXCEPT !["_update_weather"] = 1,
                                                !["_update_metrics"] = 1]
        /\ dialogs = 0
        /\ lastOp = [name |-> "__init__", thread |-> "main", escaped |-> "none",
                     detail |-> [ip |-> "ok", city |-> Some(<<Ch.b>>), geo |-> "none",
                                 resp |-> Some(found)]]
        /\ resolved = LocationOf(c)
        /\ geo = [called |-> FALSE]

SampleWeather == UpdateWeatherWith(CodeOutcomes)

SpecWeather == InitWeather /\ [][SampleWeather]_vars

----------------------------------------------------------------------------
(* geocode_city evaluated on its own over the inputs above *)

GeocodeCall ==
    /\ ~geo.called
    /\ \E q \in {Some(t) : t \in Queries} \cup {None}, tr \in Translations,
          resp \in GeoResponses(MaxResults) :
        /\ geo' = [called |-> TRUE, city |-> q,
                   tr |-> IF q # None /\ HasCyrillic(q[1]) THEN tr ELSE NoTranslation,
                   resp |-> resp, out |-> geocode_city(q, tr, resp)]
        /\ UNCHANGED <<variant, phase, cfg, disk, alpha, win_alpha, weather_label,
                       net_label, last_net, last_time, scheduled, dialogs, lastOp,
                       resolved>>

SpecGeocode == Init /\ [][GeocodeCall]_vars

----------------------------------------------------------------------------
(* Properties of geocode_city *)

\* C1: for a str query and a non-empty candidate list, geocode_city returns
\* the coordinates of the first candidate whose trimmed, lower-cased name
\* equals the trimmed, lower-cased query, wherever it stands; if there is
\* none, of the first candidate whose name starts with the query; if there is
\* none, of the first candidate.
C1_ThreeTierPolicy ==
    (geo.called /\ geo.city # None /\ geo.resp.kind = "ok"
        /\ geo.resp.results # None /\ geo.resp.results[1] # <<>>) =>
    LET list == geo.resp.results[1]
        query == Lower(Strip(geo.out.calls[Len(geo.out.calls)].q))
        norm(i) == Lower(Strip(IF list[i].hasName THEN list[i].name ELSE <<>>))
        isExact(i) == norm(i) = query
        isPrefix(i) == /\ Len(norm(i)) >= Len(query)
                       /\ \A k \in 1..Len(query) : norm(i)[k] = query[k]
        firstOf(P(_)) == CHOOSE i \in 1..Len(list) : P(i) /\ \A j \in 1..(i - 1) : ~P(j)
        chosen == IF \E i \in 1..Len(list) : isExact(i) THEN firstOf(isExact)
                  ELSE IF \E i \in 1..Len(list) : isPrefix(i) THEN firstOf(isPrefix)
                  ELSE 1
    IN  /\ geo.out.raised = "none"
        /\ geo.out.lat = list[chosen].latitude
        /\ geo.out.lon = list[chosen].longitude

\* the exact match stands second, behind a candidate that is only a prefix
\* match, and its coordinates are returned
C1_Witness_ExactSecond ==
    /\ geo.called /\ geo.city = Some(<<Ch.b>>) /\ geo.resp.kind = "ok"
    /\ geo.resp.results # None /\ Len(geo.resp.results[1]) = 2
    /\ geo.resp.results[1][1].name = <<Ch.b, Ch.a>>
    /\ geo.resp.results[1][2].name = <<Ch.B, Ch.sp>>
    /\ geo.out.raised = "none" /\ geo.out.lat = 52 /\ geo.out.lon = 12

\* C10: the translation service is called exactly when the input has a
\* character in U+0400..U+04FF, and before the geocoding request; the
\* geocoding request is issued exactly once, and when the translation failed
\* its query is the original string.
C10_TranslateThenGeocode ==
    (geo.called /\ geo.city # None) =>
    LET text == geo.city[1]
        calls == geo.out.calls
        cyr == \E i \in 1..Len(text) : text[i] >= 1024 /\ text[i] <= 1279
        tcalls == {i \in 1..Len(calls) : calls[i].svc = "translate"}
        gcalls == {i \in 1..Len(calls) : calls[i].svc = "geocode"}
    IN  /\ cyr <=> tcalls # {}
        /\ Cardinality(tcalls) <= 1
        /\ Cardinality(gcalls) = 1
        /\ \A i \in tcalls, j \in gcalls : i < j /\ calls[i].q = text
        /\ (cyr /\ geo.tr.kind # "ok") =>
               (\A j \in gcalls : calls[j].q = text) /\ geo.out.raised # "TypeError"

\* a Cyrillic query whose translation timed out reached the geocoding service
C10_Witness_FailedTranslation ==
    /\ geo.called /\ geo.city = Some(<<Ch.cyrm>>) /\ geo.tr.kind = "Timeout"
    /\ Len(geo.out.calls) = 2
    /\ geo.out.calls[2] = [svc |-> "geocode", q |-> <<Ch.cyrm>>]

----------------------------------------------------------------------------
(* Properties of the application *)

\* C2: when the geocoding service answers without candidates, geocode_city
\* raises ValueError, _set_city returns normally (at startup and on a save)
\* and the city, lat and lon of the configuration stay as they were: the
\* stored location is always that of the last resolution that succeeded.
C2_NotFoundKeepsLocation ==
    /\ phase = "running" => LocationOf(cfg) = resolved
    /\ (/\ lastOp.name \in {"__init__", "save_and_close"}
        /\ lastOp.detail.resp # None
        /\ lastOp.detail.resp[1].kind = "ok"
        /\ \/ lastOp.detail.resp[1].results = None
           \/ lastOp.detail.resp[1].results[1] = <<>>)
       => /\ lastOp.detail.geo = "ValueError"
          /\ lastOp.escaped = "none"
          /\ phase = "running"

\* a save whose city was not found left the coordinates resolved before
C2_Witness_NotFoundAfterSuccess ==
    /\ phase = "running"
    /\ lastOp.name = "save_and_close"
    /\ lastOp.detail.resp[1] = [kind |-> "ok", results |-> Some(<<>>)]
    /\ cfg.lat = Some(52) /\ cfg.lon = Some(12)
    /\ cfg.city # lastOp.detail.city

\* C3: no network, timeout or non-2xx failure of an external call escapes
\* the handler that made the call.
C3_ServiceFailuresContained == lastOp.escaped \notin ServiceFailures

\* C4: when no city is configured and detect_city_by_ip returns None,
\* startup completes: the widget runs with both timers armed and the
\* location of the configuration null.
C4_StartupWithoutCity ==
    (/\ lastOp.name = "__init__"
     /\ lastOp.detail.ip # "unused"
     /\ lastOp.detail.geo # "skipped"
     /\ lastOp.detail.city = None)
    => /\ phase = "running"
       /\ scheduled["_update_weather"] = 1
       /\ scheduled["_update_metrics"] = 1
       /\ LocationOf(cfg) = LocationOf(DefaultConfig)

\* C5: while the widget runs, each of the two periodic callbacks is scheduled
\* again after every execution, whatever its outcome.
C5_TicksRescheduled ==
    phase = "running" =>
        /\ scheduled["_update_weather"] = 1
        /\ scheduled["_update_metrics"] = 1

\* C6: the tray thread only schedules callbacks: _open_settings and _quit run
\* on the main-loop thread, and a step of the tray thread changes neither the
\* GUI state nor the configuration.
C6_TrayActionsMarshalled ==
    [][ /\ lastOp'.name \in {"_open_settings", "_quit", "save_and_close"}
            => lastOp'.thread = "main"
        /\ lastOp'.thread = "tray"
            => UNCHANGED <<phase, cfg, disk, alpha, win_alpha, weather_label,
                           net_label, last_net, last_time, dialogs>> ]_vars

\* the settings dialog requested from the tray menu was opened by the main loop
C6_Witness_SettingsOnMainLoop ==
    /\ lastOp.name = "_open_settings" /\ lastOp.thread = "main"
    /\ dialogs = 1 /\ scheduled["_open_settings"] = 0

\* C9: a weather tick whose response is non-2xx displays nothing: the text of
\* the weather label is unchanged by that tick.
C9_Non2xxKeepsLabel ==
    [][ (/\ lastOp'.name = "_update_weather"
         /\ lastOp'.detail.requested
         /\ lastOp'.detail.kind = "response"
         /\ lastOp'.detail.status \notin 200..299)
        => weather_label' = weather_label ]_vars

----------------------------------------------------------------------------
(* Properties of the metrics sampler *)

\* C7: the throughput computed from two consecutive samples is non-negative
\* in each direction.
C7_ThroughputNonNegative ==
    lastOp.name = "_update_metrics" =>
        /\ lastOp.detail.sent.num >= 0
        /\ lastOp.detail.recv.num >= 0

\* C8: the divisor of every sample is max(now - last_time, 1e-6), which is
\* positive also when the clock stood still or went backwards; for an
\* elapsed time above epsilon the rate is (current - previous) / elapsed /
\* 1024 in each direction, and 10240 bytes sent in 0.5 s are 20.0 KB/s.
C8_DivisorPositive ==
    lastOp.name = "_update_metrics" =>
    LET d == lastOp.detail
        elapsed == d.now - d.prev_time
        dsent == d.net.bytes_sent - d.prev_net.bytes_sent
        drecv == d.net.bytes_recv - d.prev_net.bytes_recv
        \* f is bytes / (elapsed / 10^6) / 1024 = bytes * 15625 / (elapsed * 16)
        IsRate(f, bytes) ==
            LET k == (elapsed * 16) \div f.den
            IN  f.den * k = elapsed * 16 /\ f.num * k = bytes * 15625
    IN  /\ d.time_diff = (IF elapsed > 1 THEN elapsed ELSE 1)
        /\ d.time_diff > 0
        /\ d.sent.den > 0 /\ d.recv.den > 0
        /\ elapsed > 1 => IsRate(d.sent, dsent) /\ IsRate(d.recv, drecv)
        /\ (dsent = 10240 /\ elapsed = 500000) =>
               d.sent = [num |-> 20, den |-> 1] /\ net_label[1] = 200

\* the clock went backwards between two samples and the divisor was epsilon
C8_Witness_ClockWentBack ==
    /\ lastOp.name = "_update_metrics"
    /\ lastOp.detail.now < lastOp.detail.prev_time
    /\ lastOp.detail.time_diff = 1
    /\ lastOp.detail.net.bytes_sent - lastOp.detail.prev_net.bytes_sent = 10240
    /\ lastOp.detail.sent = [num |-> 10000000, den |-> 1]

----------------------------------------------------------------------------
(* Properties of the weather display *)

\* C11: the glyph shown is determined by the weather code: the entry of
\* WEATHER_ICONS for a code that is a key of the table (thunderstorm for 95),
\* the globe for any other code (17); a missing temperature or wind is shown
\* as "?" and the update completes.
C11_GlyphFromCode ==
    (/\ lastOp.name = "_update_weather"
     /\ lastOp.detail.requested
     /\ lastOp.detail.kind = "response"
     /\ lastOp.detail.raised = "none"
     /\ lastOp.detail.data.weathercode # None)
    => LET d == lastOp.detail.data
           code == d.weathercode[1]
       IN  /\ lastOp.escaped = "none"
           /\ scheduled["_update_weather"] = 1
           /\ Len(weather_label) = 3
           /\ code \in DOMAIN WEATHER_ICONS => weather_label[1] = WEATHER_ICONS[code]
           /\ code \notin DOMAIN WEATHER_ICONS => weather_label[1] = "globe"
           /\ code = 95 => weather_label[1] = "thunder_cloud"
           /\ code = 17 => weather_label[1] = "globe"
           /\ d.temperature = None => weather_label[2] = "?"
           /\ d.temperature # None => weather_label[2] # "?"
           /\ d.windspeed = None => weather_label[3] = "?"
           /\ d.windspeed # None => weather_label[3] # "?"

\* code 17 without a temperature was displayed as the globe with "?"
C11_Witness_UnmappedCode ==
    /\ lastOp.name = "_update_weather"
    /\ lastOp.detail.raised = "none"
    /\ lastOp.detail.data.weathercode = Some(17)
    /\ lastOp.detail.data.temperature = None
    /\ weather_label = <<"globe", "?", "3">>

----------------------------------------------------------------------------
(* Properties of the sampler's baseline *)

\* C12: after each metrics tick the stored baseline is the counter reading
\* and the timestamp that the tick used for its rates, so that the deltas of
\* consecutive ticks add up to the growth of the counters.
C12_BaselineIsReadingUsed ==
    lastOp.name = "_update_metrics" =>
        /\ last_net = lastOp.detail.net
        /\ last_time = lastOp.detail.now

----------------------------------------------------------------------------
(* Properties of the stored configuration *)

\* C13: the configuration is flushed after every change: while the widget
\* runs the file equals the configuration in memory, and after a settings
\* save with the chosen opacity a, whatever became of the city, the
\* configuration and the window have opacity a.
C13_SavedOpacityFlushed ==
    /\ phase = "running" => disk = Some(cfg) /\ alpha = cfg.alpha /\ win_alpha = alpha
    /\ lastOp.name = "save_and_close" =>
        /\ cfg.alpha = lastOp.detail.alpha
        /\ alpha = lastOp.detail.alpha
        /\ win_alpha = lastOp.detail.alpha
        /\ disk = Some(cfg)

\* C14: the location fields stay consistent in memory and in the file: lat
\* is null exactly when lon is, the city is set whenever the coordinates are,
\* and the coordinates are those the stored city resolved to; a weather tick
\* requests with both coordinates of the stored city or not at all.
C14_LocationConsistent ==
    LET Consistent(c) ==
            /\ c.lat = None <=> c.lon = None
            /\ c.lat # None => c.city # None
    IN  /\ phase = "running" =>
            /\ Consistent(cfg)
            /\ cfg.lat # None => LocationOf(cfg) = resolved
            /\ cfg.lat = None => cfg.city = None
        /\ disk # None => Consistent(disk[1])
        /\ lastOp.name = "_update_weather" =>
            /\ lastOp.detail.requested <=>
                   (lastOp.detail.lat # None /\ lastOp.detail.lon # None)
            /\ lastOp.detail.requested =>
                   [city |-> cfg.city, lat |-> lastOp.detail.lat,
                    lon |-> lastOp.detail.lon] = resolved

\* a weather request was made for the city that a settings save resolved anew
C14_Witness_RequestAfterNewCity ==
    /\ lastOp.name = "_update_weather"
    /\ lastOp.detail.requested
    /\ lastOp.detail.lat = Some(52) /\ lastOp.detail.lon = Some(12)
    /\ cfg.city = Some(<<Ch.cyrm>>)
    /\ disk = Some(cfg)

============================================================================
